---- MODULE Spec2Model ----
(***************************************************************************)
(* Preference persistence and reminder scheduling of the Peer Checking GUI *)
(* (gui.pyw).  The GUI handlers are modelled from gui.pyw; the preference  *)
(* helpers of modules.config they call (get_pref, set_pref, get_last_dir,  *)
(* update_last_dir, set_prefs_base_dir, the bootstrap record) are not part *)
(* of gui.pyw and are modelled from the design document.                   *)
(***************************************************************************)
EXTENDS Integers, Sequences, FiniteSets, TLC

VARIABLES
    files,            \* directory -> the user_prefs.json file in it
    tmps,             \* temp-file id -> the "._prefs_*.json" file of that id
    bootstrap,        \* the bootstrap record's base_dir ("" : no record yet)
    prefsBase,        \* modules.config's current preference base directory
    cfg,              \* attributes of modules.config (in-memory configuration)
    data_dir_var,     \* PeerCheckGUI.data_dir_var
    out_dir_var,      \* PeerCheckGUI.out_dir_var
    include_logs_var, \* PeerCheckGUI.include_logs_var
    popup,            \* the popover requested by the last handler
    strongOpen,       \* strong reminders still on screen (not yet dismissed)
    lastOp,           \* the UI event handled last
    save              \* the _save_prefs_json call, or the handler, in progress step by step

vars == <<files, tmps, bootstrap, prefsBase, cfg, data_dir_var, out_dir_var,
          include_logs_var, popup, strongOpen, lastOp, save>>

guiVars == <<bootstrap, prefsBase, cfg, data_dir_var, out_dir_var,
             include_logs_var, popup, strongOpen, lastOp>>

---------------------------------------------------------------------------
(* Bounds *)

\* run events counted in one preference document
MaxRuns == 20
\* strong reminders on screen at once
MaxOpen == 3
\* temp files that can exist in the preference directory
MaxTmp == 2
\* run events counted in one document while the store is being relocated
MaxRelocRuns == 1

---------------------------------------------------------------------------
(* Paths *)

AppDir == "/app"
OutDir == "/out"
Missing == "/missing"
NoPath == ""

\* the directories that exist (os.path.isdir)
ExistingDirs == {AppDir, OutDir}

IsDir(p) == p \in ExistingDirs

\* os.path.abspath: "" resolves to the working directory
Cwd == AppDir

Abspath(p) == IF p = NoPath THEN Cwd ELSE p

\* the base directory modules.config starts with, before any set_prefs_base_dir
DefaultBase == AppDir

---------------------------------------------------------------------------
(* JSON documents: a function from the keys present to their values *)

Empty == [k \in {} |-> 0]

Put(d, k, v) == [x \in DOMAIN d \cup {k} |-> IF x = k THEN v ELSE d[x]]

Get(d, k, dflt) == IF k \in DOMAIN d THEN d[k] ELSE dflt

NoFile == [st |-> "absent", doc |-> Empty]

Complete(d) == [st |-> "complete", doc |-> d]

\* the order json.dump writes the keys in
KeyOrder == <<"dirs", "settings", "include_logs", "suppress_logs_nag",
              "logs_clicked_once", "runs_without_logs_click", "future_key">>

FirstKeys(n) == {KeyOrder[i] : i \in 1..n}

\* what a json.dump interrupted after n keys has written
Partial(d, n) == [st |-> "partial", doc |-> [k \in DOMAIN d \cap FirstKeys(n) |-> d[k]]]

---------------------------------------------------------------------------
(* gui.pyw: _prefs_json_path, _load_prefs_json *)

PrefsJsonPath(base) == IF base # NoPath THEN base ELSE AppDir

LoadPrefsJson(fs, dir) == IF fs[dir].st = "complete" THEN fs[dir].doc ELSE Empty

\* the result of a _save_prefs_json that succeeds: os.replace(tmp, path)
ReplaceTargetAlt(fs, dir, f) == [fs EXCEPT ![dir] = Partial(f.doc, 1)]

ReplaceTarget(fs, dir, f) == [fs EXCEPT ![dir] = f]

\* a save that always goes to the fallback file next to the script
SavePrefsJsonAlt(fs, dir, prefs) == ReplaceTarget(fs, AppDir, Complete(prefs))

SavePrefsJson(fs, dir, prefs) == ReplaceTarget(fs, dir, Complete(prefs))

---------------------------------------------------------------------------
(* modules.config preference helpers *)

GetPref(fs, dir, key, dflt) == Get(LoadPrefsJson(fs, dir), key, dflt)

SetPref(fs, dir, key, val) == SavePrefsJson(fs, dir, Put(LoadPrefsJson(fs, dir), key, val))

GetLastDir(fs, dir, category, dflt) == Get(Get(LoadPrefsJson(fs, dir), "dirs", Empty), category, dflt)

UpdateLastDir(fs, dir, category, path) ==
    SetPref(fs, dir, "dirs", Put(Get(LoadPrefsJson(fs, dir), "dirs", Empty), category, path))

GetBootstrapLastOutputDir(bs) == IF bs # NoPath THEN bs ELSE DefaultBase

\* set_prefs_base_dir: an invalid target is rejected and the prior base stays
SetPrefsBaseDir(base, path) == IF IsDir(path) THEN path ELSE base

\* ... and a valid target is also recorded in the bootstrap record
SetPrefsBaseDirBootstrap(bs, path) == IF IsDir(path) THEN path ELSE bs

---------------------------------------------------------------------------
(* gui.pyw: _maybe_show_logs_nag *)

SoftAt == 5
StrongFrom == 10
StrongEvery == 5

SeverityAlt(runs) ==
    IF runs = SoftAt THEN "soft"
    ELSE IF runs >= StrongFrom THEN "strong"
    ELSE "none"

Severity(runs) ==
    IF runs = SoftAt THEN "soft"
    ELSE IF runs >= StrongFrom /\ runs % StrongEvery = 0 THEN "strong"
    ELSE "none"

Suppressed(fs, dir) == GetPref(fs, dir, "suppress_logs_nag", FALSE)

Clicked(fs, dir) == GetPref(fs, dir, "logs_clicked_once", FALSE)

Runs(fs, dir) == GetPref(fs, dir, "runs_without_logs_click", 0)

\* the early returns of _maybe_show_logs_nag
NagInertAlt(fs, dir) == Clicked(fs, dir)

NagInert(fs, dir) == Suppressed(fs, dir) \/ Clicked(fs, dir)

\* the files after the scheduler step
NagFilesAlt(fs, dir) == SetPref(fs, dir, "runs_without_logs_click", Runs(fs, dir) + 1)

NagFiles(fs, dir) ==
    IF NagInert(fs, dir) THEN fs
    ELSE SetPref(fs, dir, "runs_without_logs_click", Runs(fs, dir) + 1)

\* the popover the scheduler step requests
NagPopupAlt(fs, dir) ==
    IF Clicked(fs, dir) THEN "none"
    ELSE Severity(Runs(fs, dir) + 1)

NagPopup(fs, dir) ==
    IF NagInert(fs, dir) THEN "none"
    ELSE Severity(Runs(fs, dir) + 1)

---------------------------------------------------------------------------
(* gui.pyw: SettingsDialog and the settings snapshot *)

BOOL_KEYS == {"LOG_SVCLOC_DEBUG", "LOG_DROP_DEBUG", "LOG_MIRROR_SHEETS",
              "LOG_SLACK_LOOP_SHEET_TO_LOG", "LOG_NID_SHEET_TO_LOG"}

CHOICE_KEYS == {"LOG_DETAIL", "LOG_COLOR_MODE"}

\* the keys of settings_payload in SettingsDialog._apply
DialogKeys == BOOL_KEYS \cup CHOICE_KEYS \cup {"LOG_INCLUDE_WALK_PATH"}

WHITELIST == {"SHOW_ALL_SHEETS", "LOG_SHOW_ABBREV_HEADER", "LOG_INCLUDE_WALK_PATH",
              "LOG_DETAIL", "OUTPUT_XLSX", "ID_COL", "LOG_ABBREV_HEADER_LINES",
              "PATTERNS"}

\* modules.config as imported: the values the dialog falls back to
CfgDefaults ==
    [LOG_SVCLOC_DEBUG |-> TRUE, LOG_DROP_DEBUG |-> TRUE, LOG_MIRROR_SHEETS |-> TRUE,
     LOG_SLACK_LOOP_SHEET_TO_LOG |-> TRUE, LOG_NID_SHEET_TO_LOG |-> FALSE,
     LOG_DETAIL |-> "INFO", LOG_COLOR_MODE |-> "OFF", LOG_INCLUDE_WALK_PATH |-> TRUE,
     LOG_LEVEL |-> 20, WRITE_LOG_FILE |-> TRUE, DATA_DIR |-> NoPath]

\* the dialog after "Reset to Defaults"
ResetDefaults ==
    [LOG_SVCLOC_DEBUG |-> TRUE, LOG_DROP_DEBUG |-> TRUE, LOG_MIRROR_SHEETS |-> TRUE,
     LOG_SLACK_LOOP_SHEET_TO_LOG |-> TRUE, LOG_NID_SHEET_TO_LOG |-> FALSE,
     LOG_DETAIL |-> "INFO", LOG_COLOR_MODE |-> "OFF", LOG_INCLUDE_WALK_PATH |-> FALSE]

\* a dialog with every widget changed from its default
DebugChoice ==
    [LOG_SVCLOC_DEBUG |-> FALSE, LOG_DROP_DEBUG |-> FALSE, LOG_MIRROR_SHEETS |-> FALSE,
     LOG_SLACK_LOOP_SHEET_TO_LOG |-> FALSE, LOG_NID_SHEET_TO_LOG |-> TRUE,
     LOG_DETAIL |-> "DEBUG", LOG_COLOR_MODE |-> "EMOJI", LOG_INCLUDE_WALK_PATH |-> TRUE]

\* the dialog as opened: every widget shows the current configuration
DialogValues(c) == [k \in DialogKeys |-> c[k]]

\* what the user can have in the dialog when pressing Apply
DialogChoices(c) == {ResetDefaults, DebugChoice, DialogValues(c)}

\* SettingsDialog._apply: push the dialog's values into modules.config
ApplyToConfig(c, payload) ==
    [k \in DOMAIN c |->
        IF k \in DOMAIN payload THEN payload[k]
        ELSE IF k = "LOG_LEVEL" THEN (IF payload["LOG_DETAIL"] = "DEBUG" THEN 10 ELSE 20)
        ELSE c[k]]

\* SettingsDialog._apply: the document it saves
ApplyPrefsAlt(prefs, payload) == Put(Empty, "settings", payload)

ApplyPrefs(prefs, payload) == Put(prefs, "settings", payload)

\* _apply_settings_from_prefs_on_startup: setattr(cfg, k, v) for every saved key
ApplySettingsFromPrefsOnStartup(c, prefs) ==
    LET settings == Get(prefs, "settings", Empty)
    IN  [k \in DOMAIN c \cup DOMAIN settings |->
            IF k \in DOMAIN settings THEN settings[k] ELSE c[k]]

---------------------------------------------------------------------------
(* gui.pyw: start of the process (class body, then _create_widgets) *)

\* the class body runs the settings restore before any base directory is set
StartCfg0(fs) == ApplySettingsFromPrefsOnStartup(CfgDefaults, LoadPrefsJson(fs, DefaultBase))

\* a start-up that leaves the base directory where modules.config starts
StartBaseAlt(bs) == DefaultBase

StartBase(bs) == SetPrefsBaseDir(DefaultBase, GetBootstrapLastOutputDir(bs))

StartBootstrap(bs) == SetPrefsBaseDirBootstrap(bs, GetBootstrapLastOutputDir(bs))

StartDataDir(fs, bs) == GetLastDir(fs, StartBase(bs), "data", StartCfg0(fs)["DATA_DIR"])

StartIncludeLogs(fs, bs) ==
    LET prefs == LoadPrefsJson(fs, StartBase(bs))
    IN  IF "include_logs" \in DOMAIN prefs THEN prefs["include_logs"]
        ELSE StartCfg0(fs)["WRITE_LOG_FILE"]

StartCfg(fs, bs) == [StartCfg0(fs) EXCEPT !["WRITE_LOG_FILE"] = StartIncludeLogs(fs, bs)]

\* no _save_prefs_json call is in progress
IdleSave == [pc |-> "idle", dir |-> NoPath, prefs |-> Empty, old |-> NoFile,
             tmp |-> 0, n |-> 0, err |-> FALSE]

\* a document written by a later version of the program: a key this one does not know
FutureDoc == Put(Empty, "future_key", "v2")

InitFiles == {[d \in ExistingDirs |-> NoFile],
              [d \in ExistingDirs |-> IF d = AppDir THEN Complete(FutureDoc) ELSE NoFile]}

Init ==
    /\ files \in InitFiles
    /\ tmps = [i \in 1..MaxTmp |-> NoFile]
    /\ bootstrap = StartBootstrap(NoPath)
    /\ prefsBase = StartBase(NoPath)
    /\ cfg = StartCfg(files, NoPath)
    /\ data_dir_var = StartDataDir(files, NoPath)
    /\ out_dir_var = GetBootstrapLastOutputDir(NoPath)
    /\ include_logs_var = StartIncludeLogs(files, NoPath)
    /\ popup = "none"
    /\ strongOpen = 0
    /\ lastOp = "start"
    /\ save = IdleSave

\* the bootstrap records a first start can find: none, or one left by an earlier
\* installation whose output folder has been removed since
FoundBootstrap == {NoPath, Missing}

\* the state after a first start, whatever bootstrap record it finds
InitReloc ==
    \E bs \in FoundBootstrap :
        /\ files \in InitFiles
        /\ tmps = [i \in 1..MaxTmp |-> NoFile]
        /\ bootstrap = StartBootstrap(bs)
        /\ prefsBase = StartBase(bs)
        /\ cfg = StartCfg(files, bs)
        /\ data_dir_var = StartDataDir(files, bs)
        /\ out_dir_var = GetBootstrapLastOutputDir(bs)
        /\ include_logs_var = StartIncludeLogs(files, bs)
        /\ popup = "none"
        /\ strongOpen = 0
        /\ lastOp = "start"
        /\ save = IdleSave

\* the window as PeerCheckGUI.__init__ leaves it
StartGui ==
    /\ bootstrap' = StartBootstrap(bootstrap)
    /\ prefsBase' = StartBase(bootstrap)
    /\ cfg' = StartCfg(files, bootstrap)
    /\ data_dir_var' = StartDataDir(files, bootstrap)
    /\ out_dir_var' = GetBootstrapLastOutputDir(bootstrap)
    /\ include_logs_var' = StartIncludeLogs(files, bootstrap)
    /\ popup' = "none"
    /\ strongOpen' = 0
    /\ lastOp' = "start"

\* the process exits (any popover goes with it) and is started again
Restart ==
    /\ save.pc = "idle"
    /\ StartGui
    /\ UNCHANGED <<files, tmps, save>>

---------------------------------------------------------------------------
(* gui.pyw: the handlers of PeerCheckGUI and SettingsDialog *)

\* a _run that goes on to the four modules.config calls without its isdir tests
RunAlt ==
    LET fs1 == NagFiles(files, prefsBase)
        shown == NagPopup(files, prefsBase)
        data_dir == Abspath(data_dir_var)
        out_dir == Abspath(out_dir_var)
        base2 == SetPrefsBaseDir(prefsBase, out_dir)
        fs2 == UpdateLastDir(fs1, base2, "output", out_dir)
        fs3 == UpdateLastDir(fs2, base2, "data", data_dir)
    IN  /\ save.pc = "idle"
        /\ NagInert(files, prefsBase) \/ Runs(files, prefsBase) < MaxRuns
        /\ shown = "strong" => strongOpen < MaxOpen
        /\ popup' = shown
        /\ strongOpen' = IF shown = "strong" THEN strongOpen + 1 ELSE strongOpen
        /\ lastOp' = "run"
        /\ prefsBase' = base2
        /\ bootstrap' = out_dir
        /\ files' = SetPref(fs3, base2, "include_logs", include_logs_var)
        /\ cfg' = [cfg EXCEPT !["DATA_DIR"] = data_dir,
                              !["WRITE_LOG_FILE"] = include_logs_var]
        /\ UNCHANGED <<tmps, data_dir_var, out_dir_var, include_logs_var, save>>

\* PeerCheckGUI._run
Run ==
    LET fs1 == NagFiles(files, prefsBase)
        shown == NagPopup(files, prefsBase)
        data_dir == Abspath(data_dir_var)
        out_dir == Abspath(out_dir_var)
        valid == IsDir(data_dir) /\ IsDir(out_dir)
        base2 == SetPrefsBaseDir(prefsBase, out_dir)
        fs2 == UpdateLastDir(fs1, base2, "output", out_dir)
        fs3 == UpdateLastDir(fs2, base2, "data", data_dir)
        fs4 == SetPref(fs3, base2, "include_logs", include_logs_var)
    IN  /\ save.pc = "idle"
        /\ NagInert(files, prefsBase) \/ Runs(files, prefsBase) < MaxRuns
        /\ shown = "strong" => strongOpen < MaxOpen
        /\ popup' = shown
        /\ strongOpen' = IF shown = "strong" THEN strongOpen + 1 ELSE strongOpen
        /\ lastOp' = "run"
        /\ IF valid
           THEN /\ prefsBase' = base2
                /\ bootstrap' = out_dir
                /\ files' = fs4
                /\ cfg' = [cfg EXCEPT !["DATA_DIR"] = data_dir,
                                      !["WRITE_LOG_FILE"] = include_logs_var]
           ELSE /\ files' = fs1
                /\ UNCHANGED <<prefsBase, bootstrap, cfg>>
        /\ UNCHANGED <<tmps, data_dir_var, out_dir_var, include_logs_var, save>>

\* PeerCheckGUI._run while few runs have been counted in the active document
RelocRun == Runs(files, prefsBase) < MaxRelocRuns /\ Run

\* _maybe_show_logs_nag._never, then tip.destroy()
NeverAgain ==
    /\ save.pc = "idle"
    /\ strongOpen > 0
    /\ files' = SetPref(files, prefsBase, "suppress_logs_nag", TRUE)
    /\ strongOpen' = strongOpen - 1
    /\ popup' = "none"
    /\ lastOp' = "never"
    /\ UNCHANGED <<tmps, bootstrap, prefsBase, cfg, data_dir_var, out_dir_var,
                   include_logs_var, save>>

\* the Dismiss button of a strong reminder
Dismiss ==
    /\ save.pc = "idle"
    /\ strongOpen > 0
    /\ strongOpen' = strongOpen - 1
    /\ popup' = "none"
    /\ lastOp' = "dismiss"
    /\ UNCHANGED <<files, tmps, bootstrap, prefsBase, cfg, data_dir_var, out_dir_var,
                   include_logs_var, save>>

\* the two writes of the first Logs click
AckWritesAlt(fs, dir) == SetPref(fs, dir, "logs_clicked_once", TRUE)

AckWrites(fs, dir) ==
    SetPref(SetPref(fs, dir, "logs_clicked_once", TRUE), dir, "runs_without_logs_click", 0)

\* PeerCheckGUI._on_toggle_logs
OnToggleLogs ==
    LET val == ~include_logs_var
        fs1 == SetPref(files, prefsBase, "include_logs", val)
        first == ~GetPref(fs1, prefsBase, "logs_clicked_once", FALSE)
    IN  /\ save.pc = "idle"
        /\ include_logs_var' = val
        /\ cfg' = [cfg EXCEPT !["WRITE_LOG_FILE"] = val]
        /\ files' = IF first THEN AckWrites(fs1, prefsBase) ELSE fs1
        /\ popup' = IF first THEN "info" ELSE "none"
        /\ lastOp' = "toggle"
        /\ UNCHANGED <<tmps, bootstrap, prefsBase, data_dir_var, out_dir_var,
                       strongOpen, save>>

\* PeerCheckGUI._browse_out_dir; path = "" is a cancelled dialog
BrowseOutDir(path) ==
    /\ save.pc = "idle"
    /\ popup' = "none"
    /\ lastOp' = "browse_out"
    /\ IF path # NoPath
       THEN /\ out_dir_var' = path
            /\ prefsBase' = SetPrefsBaseDir(prefsBase, path)
            /\ bootstrap' = path
            /\ files' = UpdateLastDir(files, SetPrefsBaseDir(prefsBase, path), "output", path)
       ELSE UNCHANGED <<out_dir_var, prefsBase, bootstrap, files>>
    /\ UNCHANGED <<tmps, cfg, data_dir_var, include_logs_var, strongOpen, save>>

\* PeerCheckGUI._browse_data_dir; path = "" is a cancelled dialog
BrowseDataDir(path) ==
    LET fs1 == UpdateLastDir(files, prefsBase, "data", path)
        new_out == GetLastDir(fs1, prefsBase, "output", NoPath)
    IN  /\ save.pc = "idle"
        /\ popup' = "none"
        /\ lastOp' = "browse_data"
        /\ IF path # NoPath
           THEN /\ data_dir_var' = path
                /\ files' = fs1
                /\ out_dir_var' = new_out
                /\ prefsBase' = SetPrefsBaseDir(prefsBase, new_out)
                /\ bootstrap' = SetPrefsBaseDirBootstrap(bootstrap, new_out)
           ELSE UNCHANGED <<data_dir_var, files, out_dir_var, prefsBase, bootstrap>>
        /\ UNCHANGED <<tmps, cfg, include_logs_var, strongOpen, save>>

\* the user edits the Output Folder entry
TypeOutDir(p) ==
    /\ save.pc = "idle"
    /\ out_dir_var # p
    /\ out_dir_var' = p
    /\ popup' = "none"
    /\ lastOp' = "type"
    /\ UNCHANGED <<files, tmps, bootstrap, prefsBase, cfg, data_dir_var,
                   include_logs_var, strongOpen, save>>

\* the user edits the Data Folder entry
TypeDataDir(p) ==
    /\ save.pc = "idle"
    /\ data_dir_var # p
    /\ data_dir_var' = p
    /\ popup' = "none"
    /\ lastOp' = "type"
    /\ UNCHANGED <<files, tmps, bootstrap, prefsBase, cfg, out_dir_var,
                   include_logs_var, strongOpen, save>>

\* SettingsDialog._apply
SettingsApply(payload) ==
    /\ save.pc = "idle"
    /\ cfg' = ApplyToConfig(cfg, payload)
    /\ files' = SavePrefsJson(files, prefsBase,
                              ApplyPrefs(LoadPrefsJson(files, prefsBase), payload))
    /\ popup' = "none"
    /\ lastOp' = "apply"
    /\ UNCHANGED <<tmps, bootstrap, prefsBase, data_dir_var, out_dir_var,
                   include_logs_var, strongOpen, save>>

---------------------------------------------------------------------------
(* gui.pyw: _on_toggle_logs, one set_pref call at a time *)

\* the checkbox is clicked: WRITE_LOG_FILE and include_logs are written; on the first
\* click the popover is shown and the two acknowledge writes are still to come
ToggleBegin ==
    LET val == ~include_logs_var
        fs1 == SetPref(files, prefsBase, "include_logs", val)
        first == ~GetPref(fs1, prefsBase, "logs_clicked_once", FALSE)
    IN  /\ save.pc = "idle"
        /\ include_logs_var' = val
        /\ cfg' = [cfg EXCEPT !["WRITE_LOG_FILE"] = val]
        /\ files' = fs1
        /\ popup' = IF first THEN "info" ELSE "none"
        /\ lastOp' = "toggle"
        /\ save' = IF first THEN [IdleSave EXCEPT !.pc = "ack_flag", !.dir = prefsBase]
                   ELSE IdleSave
        /\ UNCHANGED <<tmps, bootstrap, prefsBase, data_dir_var, out_dir_var, strongOpen>>

\* set_pref("logs_clicked_once", True)
ToggleSetFlag ==
    /\ save.pc = "ack_flag"
    /\ files' = SetPref(files, prefsBase, "logs_clicked_once", TRUE)
    /\ save' = [save EXCEPT !.pc = "ack_counter"]
    /\ UNCHANGED <<tmps, guiVars>>

\* set_pref("runs_without_logs_click", 0), and the handler returns
ToggleResetCounter ==
    /\ save.pc = "ack_counter"
    /\ files' = SetPref(files, prefsBase, "runs_without_logs_click", 0)
    /\ save' = IdleSave
    /\ UNCHANGED <<tmps, guiVars>>

\* the process is stopped between two writes of the handler
ToggleStop ==
    /\ save.pc \in {"ack_flag", "ack_counter"}
    /\ save' = [save EXCEPT !.pc = "crashed"]
    /\ UNCHANGED <<files, tmps, guiVars>>

---------------------------------------------------------------------------
(* gui.pyw: _save_prefs_json, one step at a time *)

\* the documents handed to _save_prefs_json: the loaded document with one key set
SaveInputs == {<<"include_logs", TRUE>>, <<"suppress_logs_nag", TRUE>>,
               <<"runs_without_logs_click", 1>>}

\* the next key json.dump writes after the first n places of KeyOrder (0: none left)
DumpNext(prefs, n) ==
    LET left == {i \in (n + 1)..Len(KeyOrder) : KeyOrder[i] \in DOMAIN prefs}
    IN  IF left = {} THEN 0 ELSE CHOOSE i \in left : \A j \in left : i <= j

\* the finally block: os.remove(tmp) if it still exists
CleanupTmpAlt(ts, id) == ts

CleanupTmp(ts, id) == IF id # 0 /\ ts[id].st # "absent" THEN [ts EXCEPT ![id] = NoFile] ELSE ts

\* _save_prefs_json is entered: path = _prefs_json_path(), the directory exists
SaveCall(key, val) ==
    LET dir == PrefsJsonPath(prefsBase)
    IN  /\ save.pc = "idle"
        /\ save' = [pc |-> "mkstemp", dir |-> dir,
                    prefs |-> Put(LoadPrefsJson(files, dir), key, val),
                    old |-> files[dir], tmp |-> 0, n |-> 0, err |-> FALSE]
        /\ UNCHANGED <<files, tmps, guiVars>>

\* the temp-file names not in use
FreeTmp(ts) == {i \in 1..MaxTmp : ts[i].st = "absent"}

\* tempfile.mkstemp creates an empty file under a name not in use (names are
\* interchangeable: the first free one stands for any)
SaveMkstemp ==
    /\ save.pc = "mkstemp"
    /\ FreeTmp(tmps) # {}
    /\ LET id == CHOOSE i \in FreeTmp(tmps) : \A j \in FreeTmp(tmps) : i <= j
       IN  /\ tmps' = [tmps EXCEPT ![id] = Partial(save.prefs, 0)]
           /\ save' = [save EXCEPT !.pc = "dump", !.tmp = id]
    /\ UNCHANGED <<files, guiVars>>

\* tempfile.mkstemp raises: the try block is never entered
SaveMkstempFails ==
    /\ save.pc = "mkstemp"
    /\ save' = [save EXCEPT !.pc = "returned", !.err = TRUE]
    /\ UNCHANGED <<files, tmps, guiVars>>

\* json.dump writes the next key into the temp file
SaveDumpKey ==
    /\ save.pc = "dump"
    /\ DumpNext(save.prefs, save.n) # 0
    /\ tmps' = [tmps EXCEPT ![save.tmp] = Partial(save.prefs, DumpNext(save.prefs, save.n))]
    /\ save' = [save EXCEPT !.n = DumpNext(save.prefs, save.n)]
    /\ UNCHANGED <<files, guiVars>>

\* json.dump is done and the with block closes the temp file
SaveDumpDone ==
    /\ save.pc = "dump"
    /\ DumpNext(save.prefs, save.n) = 0
    /\ tmps' = [tmps EXCEPT ![save.tmp] = Complete(save.prefs)]
    /\ save' = [save EXCEPT !.pc = "replace"]
    /\ UNCHANGED <<files, guiVars>>

\* json.dump or the write raises: control goes to the finally block
SaveDumpFails ==
    /\ save.pc = "dump"
    /\ save' = [save EXCEPT !.pc = "finally", !.err = TRUE]
    /\ UNCHANGED <<files, tmps, guiVars>>

\* os.replace(tmp, path) moves the temp file over the target
SaveReplace ==
    /\ save.pc = "replace"
    /\ files' = ReplaceTarget(files, save.dir, tmps[save.tmp])
    /\ tmps' = [tmps EXCEPT ![save.tmp] = NoFile]
    /\ save' = [save EXCEPT !.pc = "finally"]
    /\ UNCHANGED guiVars

\* os.replace raises: control goes to the finally block
SaveReplaceFails ==
    /\ save.pc = "replace"
    /\ save' = [save EXCEPT !.pc = "finally", !.err = TRUE]
    /\ UNCHANGED <<files, tmps, guiVars>>

\* the finally block, then the return or the propagated error
SaveFinally ==
    /\ save.pc = "finally"
    /\ tmps' = CleanupTmp(tmps, save.tmp)
    /\ save' = [save EXCEPT !.pc = "returned"]
    /\ UNCHANGED <<files, guiVars>>

\* the caller goes on
SaveReturn ==
    /\ save.pc = "returned"
    /\ save' = IdleSave
    /\ UNCHANGED <<files, tmps, guiVars>>

\* the process is stopped in the middle of a save: no finally block runs
SaveCrash ==
    /\ save.pc \in {"mkstemp", "dump", "replace", "finally"}
    /\ save' = [save EXCEPT !.pc = "crashed"]
    /\ UNCHANGED <<files, tmps, guiVars>>

\* the program is started again after a crash
Relaunch ==
    /\ save.pc = "crashed"
    /\ save' = IdleSave
    /\ StartGui
    /\ UNCHANGED <<files, tmps>>

---------------------------------------------------------------------------
(* Specifications *)

\* the reminder scheduler with relocation of the store and restarts
Next ==
    \/ Run
    \/ OnToggleLogs
    \/ NeverAgain
    \/ Dismiss
    \/ \E path \in ExistingDirs \cup {NoPath} : BrowseOutDir(path)
    \/ Restart

Spec == Init /\ [][Next]_vars

\* every handler that writes the document, on the store the program starts with
NextPrefs ==
    \/ Run
    \/ OnToggleLogs
    \/ NeverAgain
    \/ Dismiss
    \/ \E path \in ExistingDirs \cup {NoPath} : BrowseDataDir(path)
    \/ \E payload \in DialogChoices(cfg) : SettingsApply(payload)
    \/ Restart

SpecPrefs == Init /\ [][NextPrefs]_vars

\* the steps of single saves, with failures and crashes
NextSave ==
    \/ \E kv \in SaveInputs : SaveCall(kv[1], kv[2])
    \/ SaveMkstemp
    \/ SaveMkstempFails
    \/ SaveDumpKey
    \/ SaveDumpDone
    \/ SaveDumpFails
    \/ SaveReplace
    \/ SaveReplaceFails
    \/ SaveFinally
    \/ SaveReturn
    \/ SaveCrash
    \/ Relaunch

SpecSave == Init /\ [][NextSave]_vars

\* the folders the user can type into an entry
TypedDirs == {AppDir, OutDir, Missing}

\* relocation of the store: every handler that sets the base directory or writes
\* the dirs map, entries edited by hand, restarts over any bootstrap record
NextReloc ==
    \/ RelocRun
    \/ \E path \in ExistingDirs \cup {NoPath} : BrowseOutDir(path)
    \/ \E path \in ExistingDirs \cup {NoPath} : BrowseDataDir(path)
    \/ \E p \in TypedDirs : TypeOutDir(p)
    \/ \E p \in TypedDirs : TypeDataDir(p)
    \/ Restart

SpecReloc == InitReloc /\ [][NextReloc]_vars

\* the settings snapshot across restarts, on the first store and on a relocated one
NextRestore ==
    \/ \E payload \in DialogChoices(cfg) : SettingsApply(payload)
    \/ \E path \in ExistingDirs \cup {NoPath} : BrowseOutDir(path)
    \/ OnToggleLogs
    \/ Restart

SpecRestore == Init /\ [][NextRestore]_vars

\* the acknowledge writes one at a time, with process stops between them
NextAck ==
    \/ RelocRun
    \/ ToggleBegin
    \/ ToggleSetFlag
    \/ ToggleResetCounter
    \/ ToggleStop
    \/ Relaunch
    \/ \E path \in ExistingDirs \cup {NoPath} : BrowseOutDir(path)
    \/ Restart

SpecAck == Init /\ [][NextAck]_vars

---------------------------------------------------------------------------
(* Properties of the reminder scheduler (specification Spec) *)

Reminders == {"soft", "strong"}

\* C1: a run event on a store that is neither acknowledged nor suppressed raises
\* the persisted counter by exactly one, to n, and requests a soft reminder iff
\* n = 5, a strong one iff n >= 10 and n mod 5 = 0, and nothing otherwise: over 20
\* runs from 0 nothing on runs 1-4, 6-9, 11-14, 16-19, soft at 5, strong at 10, 15, 20.
C1_Escalation ==
    [][(lastOp' = "run" /\ ~Suppressed(files, prefsBase) /\ ~Clicked(files, prefsBase)) =>
        LET n == Runs(files', prefsBase)
        IN  /\ n = Runs(files, prefsBase) + 1
            /\ (popup' = "soft") <=> (n = 5)
            /\ (popup' = "strong") <=> (n >= 10 /\ n % 5 = 0)
            /\ (popup' = "none") <=> (n # 5 /\ ~(n >= 10 /\ n % 5 = 0))
            /\ n \in ((1..4) \cup (6..9) \cup (11..14) \cup (16..19)) => popup' = "none"
            /\ n \in {10, 15, 20} => popup' = "strong"]_vars

\* twenty runs in a row on the first store, none dismissed: the third strong reminder
C1_Witness ==
    /\ lastOp = "run" /\ popup = "strong" /\ strongOpen = 3
    /\ Runs(files, AppDir) = 20
    /\ ~Clicked(files, AppDir) /\ ~Suppressed(files, AppDir)

\* C2: the first Logs toggle leaves logs_clicked_once = true and
\* runs_without_logs_click = 0 in the document, whatever the counter was; a document
\* that is acknowledged stays acknowledged with counter 0 through every later event,
\* restarts included, and a run event on it requests no reminder.
C2_AcknowledgeLatches ==
    [][/\ (lastOp' = "toggle" /\ ~Clicked(files, prefsBase)) =>
            (Clicked(files', prefsBase) /\ Runs(files', prefsBase) = 0
             /\ "runs_without_logs_click" \in DOMAIN LoadPrefsJson(files', prefsBase))
       /\ \A d \in ExistingDirs :
            Clicked(files, d) => (Clicked(files', d) /\ Runs(files', d) = 0)
       /\ (lastOp' = "run" /\ Clicked(files, prefsBase)) => popup' \notin Reminders]_vars

\* a silent run on a store acknowledged while a strong reminder was on screen
C2_Witness ==
    /\ lastOp = "run" /\ popup = "none" /\ strongOpen = 1
    /\ out_dir_var = prefsBase
    /\ Clicked(files, prefsBase) /\ Runs(files, prefsBase) = 0
    /\ \A d \in ExistingDirs : ~Suppressed(files, d) /\ (d # prefsBase => files[d] = NoFile)

\* C3: suppress_logs_nag, once true in a document, is never false in it again, and a
\* run event on a document where it is true requests no reminder, whatever the
\* counter and with logs_clicked_once still false.
C3_SuppressLatches ==
    [][/\ \A d \in ExistingDirs : Suppressed(files, d) => Suppressed(files', d)
       /\ (lastOp' = "run" /\ Suppressed(files, prefsBase)) => popup' \notin Reminders]_vars

\* a run on a suppressed, never acknowledged store whose count would have reached 15
C3_Witness ==
    /\ lastOp = "run" /\ popup = "none"
    /\ Suppressed(files, prefsBase) /\ ~Clicked(files, prefsBase)
    /\ Runs(files, prefsBase) = 14

\* C4: once the user has opted out or acknowledged (the flag is persisted in some
\* document), no soft or strong reminder is requested again, relocations of the
\* base directory and restarts included.
C4_NeverAnnoyedAgain ==
    (\E d \in ExistingDirs : Suppressed(files, d) \/ Clicked(files, d)) =>
        popup \notin Reminders

\* C5: a run event on a document that is acknowledged or suppressed requests no
\* popover and writes none of the three scheduler keys: in every document each is
\* present or absent as before, with the value it had.
SchedulerKeys == {"suppress_logs_nag", "logs_clicked_once", "runs_without_logs_click"}

C5_InertRunIsNoOp ==
    [][(lastOp' = "run" /\ (Clicked(files, prefsBase) \/ Suppressed(files, prefsBase))) =>
        /\ popup' = "none"
        /\ \A d \in ExistingDirs : \A k \in SchedulerKeys :
            /\ (k \in DOMAIN LoadPrefsJson(files', d)) <=> (k \in DOMAIN LoadPrefsJson(files, d))
            /\ Get(LoadPrefsJson(files', d), k, 0) = Get(LoadPrefsJson(files, d), k, 0)]_vars

\* a run on a store that is both acknowledged and suppressed
C5_Witness ==
    /\ lastOp = "run" /\ popup = "none"
    /\ out_dir_var = prefsBase
    /\ Clicked(files, prefsBase) /\ Suppressed(files, prefsBase)
    /\ Runs(files, prefsBase) = 0

---------------------------------------------------------------------------
(* Properties of the document writes (specification SpecPrefs) *)

\* the top-level keys an event is meant to write
Targets(op) ==
    CASE op = "apply" -> {"settings"}
      [] op = "run" -> {"runs_without_logs_click", "dirs", "include_logs"}
      [] op = "toggle" -> {"include_logs", "logs_clicked_once", "runs_without_logs_click"}
      [] op = "never" -> {"suppress_logs_nag"}
      [] op = "browse_data" -> {"dirs"}
      [] op = "browse_out" -> {"dirs"}
      [] OTHER -> {}

\* C7: every event keeps, in every document, each top-level key it does not target:
\* the key stays present with the value it had (Settings Apply writes only
\* `settings`; run, acknowledge, never-again and the directory updates write only
\* their own keys; a key the program does not know is kept).
C7_MergePreservesOtherKeys ==
    [][\A d \in ExistingDirs :
        \A k \in DOMAIN LoadPrefsJson(files, d) \ Targets(lastOp') :
            /\ files'[d].st = "complete"
            /\ k \in DOMAIN files'[d].doc
            /\ files'[d].doc[k] = files[d].doc[k]]_vars

\* an Apply on a document that holds every key, the unknown one included
C7_Witness ==
    /\ lastOp = "apply"
    /\ DOMAIN LoadPrefsJson(files, prefsBase) =
         {"dirs", "settings", "include_logs", "suppress_logs_nag", "logs_clicked_once",
          "runs_without_logs_click", "future_key"}
    /\ files[prefsBase].doc["settings"] = DebugChoice
    /\ files[prefsBase].doc["future_key"] = "v2"
    /\ DOMAIN files[prefsBase].doc["dirs"] = {"data", "output"}
    /\ Suppressed(files, prefsBase)

\* C10: when the start-up has completed, a configuration attribute whose key is not
\* allow-listed has the value it had before the restore (the module's own), whatever
\* is saved under `settings`.
C10_RestoreOnlyAllowListed ==
    lastOp = "start" =>
        \A k \in DOMAIN cfg \ (WHITELIST \cup {"WRITE_LOG_FILE"}) :
            k \in DOMAIN CfgDefaults /\ cfg[k] = CfgDefaults[k]

---------------------------------------------------------------------------
(* Properties of a single save (specification SpecSave) *)

\* C8: at every step of a save, and after a failure or a crash at that step, the
\* target file is the complete old file or the complete new document, never a
\* partial one; a save that failed has left the target as it was.
C8_TargetOldOrNew ==
    /\ \A d \in ExistingDirs : files[d].st # "partial"
    /\ save.pc # "idle" => files[save.dir] \in {save.old, Complete(save.prefs)}
    /\ (save.pc # "idle" /\ save.err) => files[save.dir] = save.old

\* a crash in the middle of json.dump, over a target that exists
C8_Witness ==
    /\ save.pc = "crashed" /\ save.tmp # 0 /\ save.n > 0
    /\ tmps[save.tmp].st = "partial"
    /\ DOMAIN tmps[save.tmp].doc # DOMAIN save.prefs
    /\ save.old.st = "complete"
    /\ files[save.dir] = save.old

---------------------------------------------------------------------------
(* Properties of the relocation of the store (specification SpecReloc) *)

\* the dirs sub-map of the document in directory d
Dirs(fs, d) == Get(LoadPrefsJson(fs, d), "dirs", Empty)

\* key k is present in both documents with one value, or absent from both
SameKey(d1, d2, k) ==
    /\ (k \in DOMAIN d1) <=> (k \in DOMAIN d2)
    /\ k \in DOMAIN d1 => d1[k] = d2[k]

\* C11: a change of the base directory from P1 to P2 relocates the store and copies
\* nothing. A document other than the active one is not written by any event; the
\* event that makes the change leaves P1's document as it was (a run has counted
\* itself in P1 before the change, nothing else); every key or dirs entry that is new
\* in P2's document is one the event itself wrote after the change, with the value it
\* was given, so an entry written only under P1 (dirs.data) still reads as its default
\* under P2 while P1's document still holds it.
C11_RelocatedNotCopied ==
    [][/\ \A d \in ExistingDirs : (d # prefsBase /\ d # prefsBase') => files'[d] = files[d]
       /\ prefsBase' # prefsBase =>
            LET P1 == prefsBase
                P2 == prefsBase'
                old1 == LoadPrefsJson(files, P1)
                new1 == LoadPrefsJson(files', P1)
                old2 == LoadPrefsJson(files, P2)
                new2 == LoadPrefsJson(files', P2)
            IN  /\ lastOp' \in {"run", "browse_out", "browse_data"}
                /\ lastOp' # "run" => files'[P1] = files[P1]
                /\ \A k \in (DOMAIN old1 \cup DOMAIN new1) \ {"runs_without_logs_click"} :
                        SameKey(old1, new1, k)
                /\ \A k \in DOMAIN old2 \ Targets(lastOp') : SameKey(old2, new2, k)
                /\ DOMAIN new2 \ DOMAIN old2 \subseteq Targets(lastOp')
                /\ Dirs(files', P2)["output"] = P2
                /\ lastOp' = "run" => Dirs(files', P2)["data"] = Abspath(data_dir_var)
                /\ lastOp' # "run" => SameKey(Dirs(files, P2), Dirs(files', P2), "data")]_vars

\* Browse Output has moved the store from /app, whose document remembers the data
\* folder /out, to /out, where no data folder has been remembered
C11_Witness ==
    /\ lastOp = "browse_out" /\ prefsBase = OutDir
    /\ GetLastDir(files, AppDir, "data", NoPath) = OutDir
    /\ GetLastDir(files, OutDir, "data", NoPath) = NoPath
    /\ GetLastDir(files, OutDir, "output", NoPath) = OutDir

Rejected ==
    \/ lastOp' = "run" /\ ~IsDir(Abspath(out_dir_var))
    \/ lastOp' = "start" /\ ~IsDir(GetBootstrapLastOutputDir(bootstrap))
    \/ lastOp' = "browse_data" /\ ~IsDir(GetLastDir(files', prefsBase, "output", NoPath))
    \/ BrowseOutDir(NoPath)

---------------------------------------------------------------------------
(* Properties of the settings snapshot (specification SpecRestore) *)

\* C14: when the process is restarted after a Settings Apply, then once the start-up
\* has completed every setting that Apply wrote has the applied value in the
\* configuration, whatever else the document holds and also when the document lives
\* in a relocated base directory.
C14_ApplyRestartRoundTrip ==
    [][(lastOp = "apply" /\ lastOp' = "start") =>
        LET applied == Get(LoadPrefsJson(files, prefsBase), "settings", Empty)
        IN  /\ DOMAIN applied = DialogKeys
            /\ \A k \in DialogKeys : cfg'[k] = applied[k]]_vars

---------------------------------------------------------------------------
(* Properties of the acknowledge writes (specification SpecAck) *)

\* C15: in every persisted state, the states between the writes of one handler and
\* the state left by a process stop between them included, a document with
\* logs_clicked_once = true has runs_without_logs_click = 0.
C15_AcknowledgeNeverHalfApplied ==
    \A d \in ExistingDirs : Clicked(files, d) => Runs(files, d) = 0

====
